---- MODULE Spec2Model ----
(***************************************************************************)
(* A model of the Telegram AI bot: the per-user conversation store and the *)
(* completion client (logic.py, ChatGPTHandler), the image request client  *)
(* (ImageGenerator), the usage ledger with its users.json store            *)
(* (UserManager) and the aiogram handlers that drive them (bot.py).        *)
(*                                                                         *)
(* Texts (message texts, prompts, replies, history contents, JSON keys)    *)
(* are sequences of one-character strings.  Python dicts are functions     *)
(* whose DOMAIN is the set of keys present.  Timestamps are the minute     *)
(* datetime.now().strftime("%Y-%m-%d %H:%M") would print, as a number.     *)
(***************************************************************************)
EXTENDS Integers, Sequences, FiniteSets, TLC

(***************************************************************************)
(* Program constants                                                       *)
(***************************************************************************)
\* ChatGPTHandler.max_history_length
max_history_length == 20

\* the slice bound of _enhance_prompt, prompt[:1000]
PromptLimit == 1000

(***************************************************************************)
(* Bounds of the model                                                     *)
(***************************************************************************)
\* free-text messages each user sends in a run of Spec
MaxMsgs == 2

\* the last minute datetime.now() gives
MaxClock == 1

\* messages the user of SpecRace sends, without waiting for the replies
RaceMsgs == 2

\* free-text messages each of the two users of SpecPair sends
PairMsgs == 1

\* messages the user of SpecCap sends
CapMsgs == 11

\* free-text messages the user of SpecLedger sends
LedgerMsgs == 2

\* prompts the user of SpecPrompt sends
PromptMsgs == 2

\* free-text messages the user of SpecModes sends
ModeMsgs == 2

\* how many characters past the slice bound the longest prompt of SpecPrompt is
OverLimit == 2

(***************************************************************************)
(* Inputs                                                                  *)
(***************************************************************************)
\* Telegram user identifiers (message.from_user.id)
Users == {7, 42}

\* message.from_user.username or message.from_user.first_name
Names == {"ann", "bob"}

StartCmd == <<"/", "s", "t", "a", "r", "t">>
HelpCmd == <<"/", "h", "e", "l", "p">>
StatsCmd == <<"/", "s", "t", "a", "t", "s">>
ClearCmd == <<"/", "c", "l", "e", "a", "r">>
Hello == <<"h", "e", "l", "l", "o">>
HiThere == <<"h", "i", " ", "t", "h", "e", "r", "e">>
ImageUrl == <<"u", "r", "l">>

(***************************************************************************)
(* Python dicts                                                            *)
(***************************************************************************)
EmptyDict == <<>>

\* d[k] = v
Put(d, k, v) == [x \in (DOMAIN d) \cup {k} |-> IF x = k THEN v ELSE d[x]]

\* seq[-n:] for 0 < n
LastN(seq, n) ==
    IF Len(seq) <= n THEN seq ELSE SubSeq(seq, Len(seq) - n + 1, Len(seq))

\* seq[:n]
FirstN(seq, n) == IF Len(seq) <= n THEN seq ELSE SubSeq(seq, 1, n)

(***************************************************************************)
(* ChatGPTHandler: the conversation store                                  *)
(***************************************************************************)
\* the content of the system turn (the persona instructions), abbreviated
SystemPrompt == <<"S", "Y", "S">>

_get_system_message == [role |-> "system", content |-> SystemPrompt]

\* the mutant of _get_user_history that seeds a new conversation with no
\* system turn
_get_user_history_unseeded(histories, user_id) ==
    IF user_id \in DOMAIN histories THEN histories ELSE Put(histories, user_id, <<>>)

\* user_histories after _get_user_history(user_id); the list returned is
\* the entry of user_id in it
_get_user_history(histories, user_id) ==
    IF user_id \in DOMAIN histories
    THEN histories
    ELSE Put(histories, user_id, <<_get_system_message>>)

\* the broken slice history[-max_history_length:], which keeps one turn too
\* many and lets the conversation grow past the cap
_add_to_history_keeps_max(histories, user_id, role, content) ==
    LET created == _get_user_history(histories, user_id)
        history == Append(created[user_id], [role |-> role, content |-> content])
    IN  IF Len(history) > max_history_length
        THEN Put(created, user_id,
                 <<history[1]>> \o LastN(history, max_history_length))
        ELSE Put(created, user_id, history)

\* user_histories after _add_to_history(user_id, role, content)
_add_to_history(histories, user_id, role, content) ==
    LET created == _get_user_history(histories, user_id)
        history == Append(created[user_id], [role |-> role, content |-> content])
    IN  IF Len(history) > max_history_length
        THEN Put(created, user_id,
                 <<history[1]>> \o LastN(history, max_history_length - 1))
        ELSE Put(created, user_id, history)

\* the mutant of clear_history that drops the conversation instead of
\* seeding a new one
clear_history_drops(histories, user_id) ==
    [other \in (DOMAIN histories) \ {user_id} |-> histories[other]]

\* the mutant of clear_history that builds a new store holding only the
\* conversation it resets
clear_history_of_all(histories, user_id) ==
    Put(EmptyDict, user_id, <<_get_system_message>>)

\* user_histories after clear_history(user_id)
clear_history(histories, user_id) ==
    Put(histories, user_id, <<_get_system_message>>)

\* get_history_length(user_id), on the store _get_user_history leaves
get_history_length(histories, user_id) ==
    Len(_get_user_history(histories, user_id)[user_id]) - 1

(***************************************************************************)
(* ChatGPTHandler.get_response: the outcomes of the awaited backend call   *)
(* and what the try/except makes of them                                   *)
(***************************************************************************)
RateLimitMessage == <<"R", "A", "T", "E">>
AuthMessage == <<"A", "U", "T", "H">>
GenericMessage == <<"F", "A", "I", "L">>

\* what `await self.client.chat.completions.create(...)` can do: return a
\* completion whose first choice holds `text`, or raise
Completed(text) == [kind |-> "ok", text |-> text]
RateLimitError == [kind |-> "RateLimitError", text |-> <<>>]
AuthenticationError == [kind |-> "AuthenticationError", text |-> <<>>]
OtherError == [kind |-> "Exception", text |-> <<>>]
BackendFailures == {RateLimitError, AuthenticationError, OtherError}

\* the mutant of get_response without its last `except Exception` clause: a
\* failure that is neither a rate limit nor an authentication error
\* propagates to the caller
get_response_result_no_catch_all(histories, user_id, outcome) ==
    CASE outcome.kind = "ok" ->
           [histories |-> _add_to_history(histories, user_id, "assistant", outcome.text),
            raised |-> FALSE, value |-> outcome.text]
      [] outcome.kind = "RateLimitError" ->
           [histories |-> histories, raised |-> FALSE, value |-> RateLimitMessage]
      [] outcome.kind = "AuthenticationError" ->
           [histories |-> histories, raised |-> FALSE, value |-> AuthMessage]
      [] OTHER ->
           [histories |-> histories, raised |-> TRUE, value |-> <<>>]

\* the mutant of get_response that returns a reply without recording it
get_response_result_forgets_reply(histories, user_id, outcome) ==
    CASE outcome.kind = "ok" ->
           [histories |-> histories, raised |-> FALSE, value |-> outcome.text]
      [] outcome.kind = "RateLimitError" ->
           [histories |-> histories, raised |-> FALSE, value |-> RateLimitMessage]
      [] outcome.kind = "AuthenticationError" ->
           [histories |-> histories, raised |-> FALSE, value |-> AuthMessage]
      [] OTHER ->
           [histories |-> histories, raised |-> FALSE, value |-> GenericMessage]

\* the mutant of get_response that takes a reset during its await as a
\* cancellation: it records and returns the reply only if the turn it
\* appended is still the last of the conversation
get_response_result_dropped_on_reset(histories, user_id, outcome) ==
    CASE outcome.kind = "ok" ->
           IF /\ user_id \in DOMAIN histories
              /\ histories[user_id][Len(histories[user_id])].role = "user"
           THEN [histories |-> _add_to_history(histories, user_id, "assistant",
                                               outcome.text),
                 raised |-> FALSE, value |-> outcome.text]
           ELSE [histories |-> histories, raised |-> FALSE, value |-> GenericMessage]
      [] outcome.kind = "RateLimitError" ->
           [histories |-> histories, raised |-> FALSE, value |-> RateLimitMessage]
      [] outcome.kind = "AuthenticationError" ->
           [histories |-> histories, raised |-> FALSE, value |-> AuthMessage]
      [] OTHER ->
           [histories |-> histories, raised |-> FALSE, value |-> GenericMessage]

\* get_response up to its await (lines 49-53): the user turn is appended and
\* the list then read is what the backend is called with
get_response_call(histories, user_id, message) ==
    LET appended == _add_to_history(histories, user_id, "user", message)
        after == _get_user_history(appended, user_id)
    IN  [histories |-> after, messages |-> after[user_id]]

\* get_response from the return of its await (lines 60-72): the store, whether
\* the call raised, and the value it returned
get_response_result(histories, user_id, outcome) ==
    CASE outcome.kind = "ok" ->
           [histories |-> _add_to_history(histories, user_id, "assistant", outcome.text),
            raised |-> FALSE, value |-> outcome.text]
      [] outcome.kind = "RateLimitError" ->
           [histories |-> histories, raised |-> FALSE, value |-> RateLimitMessage]
      [] outcome.kind = "AuthenticationError" ->
           [histories |-> histories, raised |-> FALSE, value |-> AuthMessage]
      [] OTHER ->
           [histories |-> histories, raised |-> FALSE, value |-> GenericMessage]

(***************************************************************************)
(* ImageGenerator                                                          *)
(***************************************************************************)
UpperCase == <<"A", "B", "C", "D", "E", "F", "G", "H", "I", "J", "K", "L", "M",
               "N", "O", "P", "Q", "R", "S", "T", "U", "V", "W", "X", "Y", "Z">>
LowerCase == <<"a", "b", "c", "d", "e", "f", "g", "h", "i", "j", "k", "l", "m",
               "n", "o", "p", "q", "r", "s", "t", "u", "v", "w", "x", "y", "z">>

\* str.lower() of one character
LowerChar(c) ==
    IF \E i \in 1..26 : UpperCase[i] = c
    THEN LowerCase[CHOOSE i \in 1..26 : UpperCase[i] = c]
    ELSE c

\* text.lower()
Lower(text) == [i \in 1..Len(text) |-> LowerChar(text[i])]

\* word in text
Contains(text, word) ==
    \E i \in 1..(Len(text) - Len(word) + 1) :
        SubSeq(text, i, i + Len(word) - 1) = word

quality_words ==
    << <<"h", "i", "g", "h", " ", "q", "u", "a", "l", "i", "t", "y">>,
       <<"d", "e", "t", "a", "i", "l", "e", "d">>,
       <<"p", "r", "o", "f", "e", "s", "s", "i", "o", "n", "a", "l">>,
       <<"b", "e", "a", "u", "t", "i", "f", "u", "l">>,
       <<"s", "t", "u", "n", "n", "i", "n", "g">> >>

QualitySuffix == <<",", " ", "h", "i", "g", "h", " ", "q", "u", "a", "l", "i", "t", "y", ",", " ", "d", "e", "t", "a", "i", "l", "e", "d">>

\* the mutant of _enhance_prompt that looks for the quality words in the
\* prompt as typed, without lower()
_enhance_prompt_case_sensitive(prompt) ==
    LET enhanced ==
            IF ~ \E w \in 1..Len(quality_words) : Contains(prompt, quality_words[w])
            THEN prompt \o QualitySuffix
            ELSE prompt
    IN  FirstN(enhanced, PromptLimit)

\* _enhance_prompt(prompt)
_enhance_prompt(prompt) ==
    LET enhanced ==
            IF ~ \E w \in 1..Len(quality_words) :
                     Contains(Lower(prompt), quality_words[w])
            THEN prompt \o QualitySuffix
            ELSE prompt
    IN  FirstN(enhanced, PromptLimit)

\* what `await self.client.images.generate(...)` can do: return one image
\* whose url is `url`, or raise
Generated(url) == [kind |-> "ok", text |-> url]

\* how a call of generate_image ends: it returns an Optional[str], or an
\* exception leaves it
None == [raised |-> FALSE, is_none |-> TRUE, value |-> <<>>]
Some(text) == [raised |-> FALSE, is_none |-> FALSE, value |-> text]
Raised == [raised |-> TRUE, is_none |-> TRUE, value |-> <<>>]

\* the mutant of generate_image without its last `except Exception` clause
generate_image_result_no_catch_all(outcome) ==
    CASE outcome.kind = "ok" -> Some(outcome.text)
      [] outcome.kind \in {"RateLimitError", "AuthenticationError"} -> None
      [] OTHER -> Raised

\* how generate_image ends once its await is over (lines 98-108)
generate_image_result(outcome) ==
    CASE outcome.kind = "ok" -> Some(outcome.text)
      [] outcome.kind = "RateLimitError" -> None
      [] outcome.kind = "AuthenticationError" -> None
      [] OTHER -> None

\* `if image_url:` in handle_image_generation, reached when generate_image
\* returned
Truthy(optional) == ~optional.raised /\ ~optional.is_none /\ optional.value # <<>>

(***************************************************************************)
(* UserManager: the usage ledger and users.json                            *)
(***************************************************************************)
DigitChars == <<"0", "1", "2", "3", "4", "5", "6", "7", "8", "9">>

IsDigit(c) == \E d \in 1..10 : DigitChars[d] = c

DigitValue(c) == (CHOOSE d \in 1..10 : DigitChars[d] = c) - 1

RECURSIVE str(_)
\* str(n) of a natural number: the key json.dump writes for an int key
str(n) ==
    IF n < 10
    THEN <<DigitChars[n + 1]>>
    ELSE str(n \div 10) \o <<DigitChars[(n % 10) + 1]>>

\* whether int(key) succeeds
IsIntText(key) == Len(key) > 0 /\ \A i \in 1..Len(key) : IsDigit(key[i])

RECURSIVE int(_)
\* int(key) of a text of digits
int(key) ==
    IF Len(key) = 1
    THEN DigitValue(key[1])
    ELSE 10 * int(SubSeq(key, 1, Len(key) - 1)) + DigitValue(key[Len(key)])

\* the states of the file users.json: absent, not parseable, or holding the
\* JSON object `data`, a dict keyed by texts
Missing == [kind |-> "missing", data |-> EmptyDict]
Corrupt == [kind |-> "corrupt", data |-> EmptyDict]
JsonFile(data) == [kind |-> "json", data |-> data]

\* json.dump(self.users, f): int keys are written as their decimal text
json_dump(users) ==
    JsonFile([key \in {str(user_id) : user_id \in DOMAIN users} |->
                  users[CHOOSE user_id \in DOMAIN users : str(user_id) = key]])

\* what open(..)/json.dump(..) of save_users can do
WriteOutcomes == {"ok", "open_fails", "dump_fails"}

\* the ledger as the operations see it: self.users, the file, and the number
\* of save_users calls made so far
Ledger(users, file, saves) == [users |-> users, file |-> file, saves |-> saves]

\* self.users after load_users() at construction
load_users(file) ==
    IF file.kind = "json" /\ \A key \in DOMAIN file.data : IsIntText(key)
    THEN [user_id \in {int(key) : key \in DOMAIN file.data} |->
              file.data[CHOOSE key \in DOMAIN file.data : int(key) = user_id]]
    ELSE EmptyDict

\* the mutant of save_users that persists incrementally: it updates the
\* entries of the file from the map and keeps the entries the file already has
save_users_merges(ledger, io) ==
    LET new == json_dump(ledger.users).data
        old == IF ledger.file.kind = "json" THEN ledger.file.data ELSE EmptyDict
    IN  [ledger EXCEPT !.saves = @ + 1,
                       !.file = CASE io = "ok" ->
                                       JsonFile([key \in (DOMAIN old) \cup (DOMAIN new) |->
                                                    IF key \in DOMAIN new
                                                    THEN new[key] ELSE old[key]])
                                  [] io = "open_fails" -> @
                                  [] OTHER -> Corrupt]

\* the mutant of save_users that answers a failed write by reading the file
\* again, which undoes the change its caller made to self.users
save_users_reloads(ledger, io) ==
    LET written == CASE io = "ok" -> json_dump(ledger.users)
                     [] io = "open_fails" -> ledger.file
                     [] OTHER -> Corrupt
    IN  [users |-> IF io = "ok" THEN ledger.users ELSE load_users(written),
         file |-> written,
         saves |-> ledger.saves + 1]

\* save_users(): "w" truncates the file once it is open, so a failure after
\* that leaves a partial file; every failure is swallowed
save_users(ledger, io) ==
    [ledger EXCEPT !.saves = @ + 1,
                   !.file = CASE io = "ok" -> json_dump(ledger.users)
                              [] io = "open_fails" -> @
                              [] OTHER -> Corrupt]

\* the record register_user makes: datetime.now() is read once for each date
NewRecord(username, now, later) ==
    [username |-> username, registration_date |-> now, messages_sent |-> 0,
     images_generated |-> 0, last_activity |-> later]

\* the mutant of register_user without its membership test: every /start
\* writes a fresh record
register_user_overwrites(ledger, user_id, username, now, later, io) ==
    save_users([ledger EXCEPT !.users = Put(@, user_id, NewRecord(username, now, later))],
               io)

\* register_user(user_id, username)
register_user(ledger, user_id, username, now, later, io) ==
    IF user_id \notin DOMAIN ledger.users
    THEN save_users([ledger EXCEPT !.users = Put(@, user_id, NewRecord(username, now, later))],
                    io)
    ELSE ledger

\* update_activity(user_id)
update_activity(ledger, user_id, now, io) ==
    IF user_id \in DOMAIN ledger.users
    THEN save_users([ledger EXCEPT !.users[user_id].last_activity = now], io)
    ELSE ledger

\* the mutant of increment_messages that counts with dict.setdefault, making
\* a record for a user that has none
increment_messages_creates(ledger, user_id, now, io) ==
    LET present == IF user_id \in DOMAIN ledger.users
                   THEN ledger.users
                   ELSE Put(ledger.users, user_id, NewRecord("", now, now))
    IN  update_activity(
            [ledger EXCEPT !.users = [present EXCEPT ![user_id].messages_sent = @ + 1]],
            user_id, now, io)

\* increment_messages(user_id)
increment_messages(ledger, user_id, now, io) ==
    IF user_id \in DOMAIN ledger.users
    THEN update_activity([ledger EXCEPT !.users[user_id].messages_sent = @ + 1],
                         user_id, now, io)
    ELSE ledger

\* the mutant of increment_images copied from increment_messages with the
\* counter left unrenamed
increment_images_counts_messages(ledger, user_id, now, io) ==
    IF user_id \in DOMAIN ledger.users
    THEN update_activity([ledger EXCEPT !.users[user_id].messages_sent = @ + 1],
                         user_id, now, io)
    ELSE ledger

\* increment_images(user_id)
increment_images(ledger, user_id, now, io) ==
    IF user_id \in DOMAIN ledger.users
    THEN update_activity([ledger EXCEPT !.users[user_id].images_generated = @ + 1],
                         user_id, now, io)
    ELSE ledger

\* get_user_stats(user_id): a copy of the record, or the placeholder
UnknownStats ==
    [username |-> "unknown", registration_date |-> -1, messages_sent |-> 0,
     images_generated |-> 0, last_activity |-> -1]

\* a dict handed to a caller: `shared` says whether it is the very object the
\* ledger stores for the user (so that the caller's writes reach the ledger)
\* or an object of its own
Returned(users, shared, value) == [users |-> users, shared |-> shared, value |-> value]

\* self.users after the caller of get_user_stats(user_id) runs
\* returned[key] = new_value
SetItem(users, user_id, returned, key, new_value) ==
    IF returned.shared /\ user_id \in DOMAIN users
    THEN [users EXCEPT ![user_id] = [field \in DOMAIN @ |->
                                        IF field = key THEN new_value ELSE @[field]]]
    ELSE users

\* the mutant of get_user_stats that returns the stored dict itself and, for
\* an unknown user, stores the placeholder it returns (dict.setdefault)
get_user_stats_no_copy(users, user_id) ==
    Returned(IF user_id \in DOMAIN users THEN users ELSE Put(users, user_id, UnknownStats),
             TRUE,
             IF user_id \in DOMAIN users THEN users[user_id] ELSE UnknownStats)

\* get_user_stats(user_id): self.users after the call, and the dict returned
get_user_stats(users, user_id) ==
    IF user_id \in DOMAIN users
    THEN Returned(users, FALSE, users[user_id])
    ELSE Returned(users, FALSE, UnknownStats)

(***************************************************************************)
(* bot.py: the dispatcher                                                  *)
(***************************************************************************)
\* BotStates, and None for a user with no state set
Idle == "None"
waiting_for_message == "waiting_for_message"
waiting_for_image_prompt == "waiting_for_image_prompt"

\* the Command(..) filter: the text is the command, alone or before arguments
IsCommand(text, command) ==
    /\ Len(text) >= Len(command)
    /\ SubSeq(text, 1, Len(command)) = command
    /\ (Len(text) = Len(command) \/ text[Len(command) + 1] = " ")

\* the mutant of the dispatcher whose catch-all handler is the chat handler:
\* a text no other handler takes goes to the completion backend in any mode
Route_chat_by_default(state, text) ==
    CASE IsCommand(text, StartCmd) -> "start_command"
      [] IsCommand(text, HelpCmd) -> "help_command"
      [] state = waiting_for_image_prompt -> "handle_image_generation"
      [] IsCommand(text, StatsCmd) -> "stats_command"
      [] IsCommand(text, ClearCmd) -> "clear_command"
      [] OTHER -> "handle_chat_message"

\* the message handler that gets a text: the first one, in the order bot.py
\* registers them, whose filter accepts it
Route(state, text) ==
    CASE IsCommand(text, StartCmd) -> "start_command"
      [] IsCommand(text, HelpCmd) -> "help_command"
      [] state = waiting_for_message -> "handle_chat_message"
      [] state = waiting_for_image_prompt -> "handle_image_generation"
      [] IsCommand(text, StatsCmd) -> "stats_command"
      [] IsCommand(text, ClearCmd) -> "clear_command"
      [] OTHER -> "handle_unknown_message"

(***************************************************************************)
(* State                                                                   *)
(***************************************************************************)
VARIABLES
    user_histories,   \* ChatGPTHandler.user_histories
    users,            \* UserManager.users
    file,             \* the file users.json
    saves,            \* calls of save_users made so far
    fsm_state,        \* the FSM state MemoryStorage holds for each user
    handlers,         \* the handler coroutines suspended at an await
    clock,            \* the minute datetime.now() gave when it was last read
    sent,             \* free-text messages each user has sent
    appended,         \* per user, the turns appended since the conversation
                      \* was created or last reset
    solo,             \* per user, the stores of a bot that saw only that
                      \* user's events, at the same times
    scenario,         \* per user, how far the events so far follow /start,
                      \* chat mode, messages answered one after another
    last              \* what the step just taken did, when it called a store

vars == <<user_histories, users, file, saves, fsm_state, handlers, clock, sent,
          appended, solo, scenario, last>>

\* a users.json left by an earlier run, in which user 7 was active
EarlierRun ==
    json_dump(Put(EmptyDict, 7,
                  [username |-> "ann", registration_date |-> 0, messages_sent |-> 1,
                   images_generated |-> 1, last_activity |-> 0]))

\* a handler step: the handler, the user, the outcome of the call it awaited
\* (or the input it was given), whether get_response raised, the text it
\* produced, a number describing the state before it, and how the write of
\* users.json ended if the step made one ("none" if it made none)
NoStep ==
    [op |-> "none", user_id |-> 0, outcome |-> "", raised |-> FALSE,
     value |-> <<>>, prior |-> 0, io |-> "none"]

Step(op, user_id, outcome, raised, value, prior) ==
    [op |-> op, user_id |-> user_id, outcome |-> outcome, raised |-> raised,
     value |-> value, prior |-> prior, io |-> "none"]

\* the state once bot.py has built chatgpt_handler, image_generator and
\* user_manager, for a given users.json
Constructed(initial_file) ==
    /\ user_histories = EmptyDict
    /\ file = initial_file
    /\ users = load_users(initial_file)
    /\ saves = 0
    /\ fsm_state = [u \in Users |-> Idle]
    /\ handlers = {}
    /\ clock = 0
    /\ sent = [u \in Users |-> 0]
    /\ appended = [u \in Users |-> <<>>]
    /\ solo = [u \in Users |->
                  [user_histories |-> EmptyDict, users |-> load_users(initial_file)]]
    /\ scenario = [u \in Users |->
                      [stage |-> IF u \in DOMAIN load_users(initial_file)
                                 THEN "off" ELSE "fresh",
                       done |-> <<>>]]
    /\ last = NoStep

Init == \E initial_file \in {Missing, EarlierRun} : Constructed(initial_file)

(***************************************************************************)
(* Bookkeeping of the model                                                *)
(***************************************************************************)
InFlight(user_id) == {h \in handlers : h.user_id = user_id}

FreeId ==
    CHOOSE id \in 1..(Cardinality(handlers) + 1) : \A h \in handlers : h.id # id

Handler(user_id, handler, pc, text) ==
    [id |-> FreeId, user_id |-> user_id, handler |-> handler, pc |-> pc,
     text |-> text, messages |-> <<>>, prompt |-> <<>>]

\* the ledger after a step that read datetime.now() as `now`, last, if it
\* changed a record (every operation that reads the time saves, and no other)
SetLedger(ledger, now) ==
    /\ users' = ledger.users
    /\ file' = ledger.file
    /\ saves' = ledger.saves
    /\ clock' = IF ledger.saves # saves THEN now ELSE clock

\* how the write of users.json ended in a step that leaves `ledger`
Saved(ledger, io) == IF ledger.saves # saves THEN io ELSE "none"

\* the ledger of the bot that sees one user only (its file is not compared)
SoloLedger(user_id) == Ledger(solo[user_id].users, Missing, 0)

ScenarioOff == [stage |-> "off", done |-> <<>>]

Follow(sc, from, to) ==
    IF sc.stage = from THEN [sc EXCEPT !.stage = to] ELSE ScenarioOff

Leave(user_id) == scenario' = [scenario EXCEPT ![user_id] = ScenarioOff]

HistoryLen(user_id) ==
    IF user_id \in DOMAIN user_histories THEN Len(user_histories[user_id]) ELSE 0

\* how the conversation of a user ends: "absent", "system", "user" (a turn
\* with no reply after it) or "assistant"
HistoryEnd(user_id) ==
    IF user_id \in DOMAIN user_histories
    THEN user_histories[user_id][Len(user_histories[user_id])].role
    ELSE "absent"

(***************************************************************************)
(* bot.py: the handlers.  A handler that awaits a call which can change    *)
(* nothing of the bot is one action, taken when it changes the state; the  *)
(* awaits around a change of state split a handler into one action each.   *)
(***************************************************************************)
\* start_command, lines 47-60: register_user, then `await message.answer`
start_command(user_id, text, username, now, later, io) ==
    /\ Route(fsm_state[user_id], text) = "start_command"
    /\ LET ledger == register_user(Ledger(users, file, saves), user_id, username,
                                   now, later, io)
       IN  /\ SetLedger(ledger, later)
           /\ last' = [Step("start_command", user_id, username, FALSE, <<>>,
                            IF user_id \in DOMAIN users THEN 1 ELSE 0)
                           EXCEPT !.io = Saved(ledger, io)]
    /\ handlers' = handlers \cup {Handler(user_id, "start_command", "answer", text)}
    /\ solo' = [solo EXCEPT ![user_id].users =
                    register_user(SoloLedger(user_id), user_id, username, now, later,
                                  "ok").users]
    /\ scenario' = [scenario EXCEPT ![user_id] = Follow(@, "fresh", "starting")]
    /\ UNCHANGED <<user_histories, fsm_state, sent, appended>>

\* start_command, lines 60-61: message.answer returns and state.clear() runs,
\* or message.answer raises and the handler ends
start_command_answered(h, delivered) ==
    /\ h \in handlers
    /\ h.handler = "start_command"
    /\ handlers' = handlers \ {h}
    /\ fsm_state' = IF delivered THEN [fsm_state EXCEPT ![h.user_id] = Idle] ELSE fsm_state
    /\ scenario' = [scenario EXCEPT ![h.user_id] = Follow(@, "starting", "started")]
    /\ UNCHANGED <<user_histories, users, file, saves, clock, sent, appended, solo>>
    /\ last' = NoStep

\* help_command
help_command(user_id, text) ==
    /\ Route(fsm_state[user_id], text) = "help_command"
    /\ Leave(user_id)
    /\ UNCHANGED <<user_histories, users, file, saves, fsm_state, handlers, clock,
                   sent, appended, solo>>
    /\ last' = NoStep

\* chat_ai_callback: state.set_state(BotStates.waiting_for_message)
chat_ai_callback(user_id) ==
    /\ fsm_state' = [fsm_state EXCEPT ![user_id] = waiting_for_message]
    /\ scenario' = [scenario EXCEPT ![user_id] = Follow(@, "started", "ready")]
    /\ UNCHANGED <<user_histories, users, file, saves, handlers, clock, sent,
                   appended, solo>>
    /\ last' = NoStep

\* generate_image_callback: state.set_state(BotStates.waiting_for_image_prompt)
generate_image_callback(user_id) ==
    /\ fsm_state' = [fsm_state EXCEPT ![user_id] = waiting_for_image_prompt]
    /\ Leave(user_id)
    /\ UNCHANGED <<user_histories, users, file, saves, handlers, clock, sent,
                   appended, solo>>
    /\ last' = NoStep

\* back_to_menu_callback: state.clear()
back_to_menu_callback(user_id) ==
    /\ fsm_state' = [fsm_state EXCEPT ![user_id] = Idle]
    /\ Leave(user_id)
    /\ UNCHANGED <<user_histories, users, file, saves, handlers, clock, sent,
                   appended, solo>>
    /\ last' = NoStep

\* what clear_history_callback and clear_command do to the bot
ClearHistory(user_id) ==
    /\ user_histories' = clear_history(user_histories, user_id)
    /\ appended' = [appended EXCEPT ![user_id] = <<>>]
    /\ solo' = [solo EXCEPT ![user_id].user_histories = clear_history(@, user_id)]
    /\ Leave(user_id)
    /\ last' = Step("clear_history", user_id, HistoryEnd(user_id), FALSE, <<>>, HistoryLen(user_id))
    /\ UNCHANGED <<users, file, saves, fsm_state, handlers, clock, sent>>

\* clear_history_callback
clear_history_callback(user_id) == ClearHistory(user_id)

\* clear_command
clear_command(user_id, text) ==
    /\ Route(fsm_state[user_id], text) = "clear_command"
    /\ ClearHistory(user_id)

\* what stats_callback and stats_command do: get_user_stats is called and the
\* four fields of the dict it returns are formatted into the answer
ShowStats(user_id) ==
    /\ LET stats == get_user_stats(users, user_id)
       IN  /\ users' = stats.users
           /\ solo' = [solo EXCEPT ![user_id].users = get_user_stats(@, user_id).users]
           /\ last' = Step("get_user_stats", user_id, "", FALSE,
                           [shared |-> stats.shared, value |-> stats.value],
                           IF user_id \in DOMAIN users THEN 1 ELSE 0)
    /\ Leave(user_id)
    /\ UNCHANGED <<user_histories, file, saves, fsm_state, handlers, clock, sent,
                   appended>>

\* stats_callback
stats_callback(user_id) == ShowStats(user_id)

\* stats_command
stats_command(user_id, text) ==
    /\ Route(fsm_state[user_id], text) = "stats_command"
    /\ ShowStats(user_id)

\* handle_unknown_message
handle_unknown_message(user_id, text) ==
    /\ Route(fsm_state[user_id], text) = "handle_unknown_message"
    /\ Leave(user_id)
    /\ UNCHANGED <<user_histories, users, file, saves, fsm_state, handlers, clock,
                   sent, appended, solo>>
    /\ last' = NoStep

\* handle_chat_message, lines 160-176: the ledger once get_response is over.
\* increment_messages runs unless get_response raised
chat_reply_ledger(ledger, user_id, outcome, response, now, io) ==
    IF response.raised
    THEN ledger
    ELSE increment_messages(ledger, user_id, now, io)

\* handle_chat_message, lines 155-158: the text is taken and
\* `await bot.send_chat_action` suspends the handler
handle_chat_message(user_id, text) ==
    /\ Route(fsm_state[user_id], text) = "handle_chat_message"
    /\ handlers' = handlers \cup
           {Handler(user_id, "handle_chat_message", "send_chat_action", text)}
    /\ sent' = [sent EXCEPT ![user_id] = @ + 1]
    /\ scenario' = [scenario EXCEPT ![user_id] = Follow(@, "ready", "typing")]
    /\ UNCHANGED <<user_histories, users, file, saves, fsm_state, clock, appended, solo>>
    /\ last' = NoStep

\* the mutant of the chat handler that holds a lock of the user from the call
\* of get_response to its return
chat_action_sent_locked(h, delivered) ==
    /\ h \in handlers
    /\ h.handler = "handle_chat_message"
    /\ h.pc = "send_chat_action"
    /\ \A other \in InFlight(h.user_id) : other.pc # "await_completion"
    /\ IF delivered
       THEN LET call == get_response_call(user_histories, h.user_id, h.text)
            IN  /\ user_histories' = call.histories
                /\ handlers' = (handlers \ {h}) \cup
                       {[h EXCEPT !.pc = "await_completion", !.messages = call.messages]}
                /\ appended' = [appended EXCEPT ![h.user_id] =
                                    Append(@, [role |-> "user", content |-> h.text])]
                /\ solo' = [solo EXCEPT ![h.user_id].user_histories =
                                get_response_call(@, h.user_id, h.text).histories]
                /\ scenario' = [scenario EXCEPT ![h.user_id] =
                                    Follow(@, "typing", "awaiting")]
       ELSE /\ handlers' = handlers \ {h}
            /\ Leave(h.user_id)
            /\ UNCHANGED <<user_histories, appended, solo>>
    /\ UNCHANGED <<users, file, saves, fsm_state, clock, sent>>
    /\ last' = NoStep

\* handle_chat_message resumes from send_chat_action and get_response runs
\* to its await (logic.py lines 49-53); or send_chat_action raises, which
\* ends the handler
chat_action_sent(h, delivered) ==
    /\ h \in handlers
    /\ h.handler = "handle_chat_message"
    /\ h.pc = "send_chat_action"
    /\ IF delivered
       THEN LET call == get_response_call(user_histories, h.user_id, h.text)
            IN  /\ user_histories' = call.histories
                /\ handlers' = (handlers \ {h}) \cup
                       {[h EXCEPT !.pc = "await_completion", !.messages = call.messages]}
                /\ appended' = [appended EXCEPT ![h.user_id] =
                                    Append(@, [role |-> "user", content |-> h.text])]
                /\ solo' = [solo EXCEPT ![h.user_id].user_histories =
                                get_response_call(@, h.user_id, h.text).histories]
                /\ scenario' = [scenario EXCEPT ![h.user_id] =
                                    Follow(@, "typing", "awaiting")]
       ELSE /\ handlers' = handlers \ {h}
            /\ Leave(h.user_id)
            /\ UNCHANGED <<user_histories, appended, solo>>
    /\ UNCHANGED <<users, file, saves, fsm_state, clock, sent>>
    /\ last' = NoStep

\* the await of get_response ends with `outcome`: get_response runs to its
\* return (logic.py lines 60-72) and handle_chat_message to its answer
\* (bot.py lines 163-176), which changes nothing of the bot
completion_returned(h, outcome, now, io) ==
    /\ h \in handlers
    /\ h.handler = "handle_chat_message"
    /\ h.pc = "await_completion"
    /\ LET response == get_response_result(user_histories, h.user_id, outcome)
           alone == get_response_result(solo[h.user_id].user_histories, h.user_id, outcome)
           ledger == chat_reply_ledger(Ledger(users, file, saves), h.user_id, outcome,
                                       response, now, io)
       IN  /\ user_histories' = response.histories
           /\ SetLedger(ledger, now)
           /\ solo' = [solo EXCEPT
                  ![h.user_id] =
                      [user_histories |-> alone.histories,
                       users |-> chat_reply_ledger(SoloLedger(h.user_id), h.user_id,
                                                   outcome, alone, now, "ok").users]]
           /\ last' = [Step("get_response", h.user_id, outcome.kind, response.raised,
                            response.value, HistoryLen(h.user_id))
                           EXCEPT !.io = Saved(ledger, io)]
    /\ appended' = [appended EXCEPT ![h.user_id] =
                        IF outcome.kind = "ok"
                        THEN Append(@, [role |-> "assistant", content |-> outcome.text])
                        ELSE @]
    /\ scenario' = [scenario EXCEPT ![h.user_id] =
                        IF @.stage = "awaiting" /\ outcome.kind = "ok"
                        THEN [stage |-> "ready",
                              done |-> Append(@.done, <<h.text, outcome.text>>)]
                        ELSE ScenarioOff]
    /\ handlers' = handlers \ {h}
    /\ UNCHANGED <<fsm_state, sent>>

\* handle_image_generation, lines 180-183
handle_image_generation(user_id, text) ==
    /\ Route(fsm_state[user_id], text) = "handle_image_generation"
    /\ handlers' = handlers \cup
           {Handler(user_id, "handle_image_generation", "send_chat_action", text)}
    /\ sent' = [sent EXCEPT ![user_id] = @ + 1]
    /\ Leave(user_id)
    /\ UNCHANGED <<user_histories, users, file, saves, fsm_state, clock, appended, solo>>
    /\ last' = NoStep

\* the mutant of the image handler that keeps the prompts as context: each
\* prompt is appended to the conversation of the user
image_action_sent_remembers(h, delivered) ==
    /\ h \in handlers
    /\ h.handler = "handle_image_generation"
    /\ h.pc = "send_chat_action"
    /\ handlers' = (handlers \ {h}) \cup
           (IF delivered
            THEN {[h EXCEPT !.pc = "await_image", !.prompt = _enhance_prompt(h.text)]}
            ELSE {})
    /\ user_histories' = IF delivered
                         THEN _add_to_history(user_histories, h.user_id, "user", h.text)
                         ELSE user_histories
    /\ Leave(h.user_id)
    /\ UNCHANGED <<users, file, saves, fsm_state, clock, sent, appended, solo>>
    /\ last' = NoStep

\* handle_image_generation resumes from send_chat_action and generate_image
\* runs to its await (logic.py lines 88-90); or send_chat_action raises
image_action_sent(h, delivered) ==
    /\ h \in handlers
    /\ h.handler = "handle_image_generation"
    /\ h.pc = "send_chat_action"
    /\ handlers' = (handlers \ {h}) \cup
           (IF delivered
            THEN {[h EXCEPT !.pc = "await_image", !.prompt = _enhance_prompt(h.text)]}
            ELSE {})
    /\ Leave(h.user_id)
    /\ UNCHANGED <<user_histories, users, file, saves, fsm_state, clock, sent,
                   appended, solo>>
    /\ last' = NoStep

\* the await of generate_image ends with `outcome`: generate_image returns
\* (logic.py lines 98-108) and handle_image_generation counts the image if
\* it got one (bot.py lines 188-213); an exception out of generate_image
\* would be caught at line 208, with nothing counted
image_returned(h, outcome, now, io) ==
    /\ h \in handlers
    /\ h.handler = "handle_image_generation"
    /\ h.pc = "await_image"
    /\ LET image_url == generate_image_result(outcome)
           ledger == IF Truthy(image_url)
                     THEN increment_images(Ledger(users, file, saves), h.user_id, now, io)
                     ELSE Ledger(users, file, saves)
       IN  /\ SetLedger(ledger, now)
           /\ solo' = [solo EXCEPT ![h.user_id].users =
                  IF Truthy(image_url)
                  THEN increment_images(SoloLedger(h.user_id), h.user_id, now, "ok").users
                  ELSE @]
           /\ last' = [Step("generate_image", h.user_id, outcome.kind, image_url.raised,
                            image_url.value, IF image_url.is_none THEN 0 ELSE 1)
                           EXCEPT !.io = Saved(ledger, io)]
    /\ handlers' = handlers \ {h}
    /\ Leave(h.user_id)
    /\ UNCHANGED <<user_histories, fsm_state, sent, appended>>

(***************************************************************************)
(* The events of the bot, by kind.  `active` are the users who send them,  *)
(* `senders` those who may now send a message that starts a handler which  *)
(* suspends, `texts` the texts they send, `ios` how a write of users.json  *)
(* can end.                                                                *)
(***************************************************************************)
Texts == {StartCmd, HelpCmd, StatsCmd, ClearCmd, Hello}

\* the texts sent in chat mode and in image mode: a plain text, and a command
\* whose own handler is registered after the handlers of the two modes
ModeTexts == {Hello, ClearCmd}

Replies == {HiThere}

CompletionOutcomes == {Completed(reply) : reply \in Replies} \cup BackendFailures

ImageOutcomes == {Generated(ImageUrl)} \cup BackendFailures

\* the minutes datetime.now() can give next, up to `until`
Minutes(until) == clock..until

\* every way an awaited call of the Telegram API can end: it returns, or raises
Deliveries == BOOLEAN

\* /start and its answer
StartEvents(senders, texts, names, until, deliveries, ios) ==
    \/ \E u \in senders, text \in texts, username \in names, io \in ios :
           \E now \in Minutes(until) : \E later \in now..until :
               start_command(u, text, username, now, later, io)
    \/ \E h \in handlers, delivered \in deliveries : start_command_answered(h, delivered)

\* the buttons of the menu that set the mode
ModeEvents(active) ==
    \/ \E u \in active : chat_ai_callback(u)
    \/ \E u \in active : generate_image_callback(u)
    \/ \E u \in active : back_to_menu_callback(u)

\* the handlers that only answer
MenuEvents(active, texts) ==
    \/ \E u \in active, text \in texts : help_command(u, text)
    \/ \E u \in active, text \in texts : handle_unknown_message(u, text)

\* the statistics, from the button and from the command
StatsEvents(active, texts) ==
    \/ \E u \in active : stats_callback(u)
    \/ \E u \in active, text \in texts : stats_command(u, text)

\* a message in chat mode, from its arrival to the reply
ChatEvents(senders, texts, outcomes, until, deliveries, ios) ==
    \/ \E u \in senders, text \in texts : handle_chat_message(u, text)
    \/ \E h \in handlers, delivered \in deliveries : chat_action_sent(h, delivered)
    \/ \E h \in handlers, outcome \in outcomes, now \in Minutes(until), io \in ios :
           completion_returned(h, outcome, now, io)

\* a message in image mode, from its arrival to the image
ImageEvents(senders, texts, outcomes, until, deliveries, ios) ==
    \/ \E u \in senders, text \in texts : handle_image_generation(u, text)
    \/ \E h \in handlers, delivered \in deliveries : image_action_sent(h, delivered)
    \/ \E h \in handlers, outcome \in outcomes, now \in Minutes(until), io \in ios :
           image_returned(h, outcome, now, io)

(***************************************************************************)
(* Spec: one user of a bot whose ledger may hold another user's record,    *)
(* sending one message at a time: every handler but the statistics, which  *)
(* SpecLedger runs, and every outcome of the backends.                     *)
(***************************************************************************)
TheUser == 42

\* the users who wait for the bot to finish with one message before sending
\* the next: those of `active` with no handler suspended
Waited(active) == {u \in active : InFlight(u) = {}}

\* those of them who have sent fewer than MaxMsgs free texts
OneAtATime(active) == {u \in Waited(active) : sent[u] < MaxMsgs}

Next ==
    \/ StartEvents(Waited({TheUser}), Texts, Names, MaxClock, Deliveries, {"ok"})
    \/ ModeEvents({TheUser})
    \/ MenuEvents({TheUser}, Texts)
    \/ \E text \in Texts : clear_command(TheUser, text)
    \/ clear_history_callback(TheUser)
    \/ ChatEvents(OneAtATime({TheUser}), ModeTexts, CompletionOutcomes, MaxClock,
                  Deliveries, {"ok"})
    \/ ImageEvents(OneAtATime({TheUser}), ModeTexts, ImageOutcomes, MaxClock,
                   Deliveries, {"ok"})

Spec == Init /\ [][Next]_vars

(***************************************************************************)
(* SpecRace: one user in chat mode who sends messages without waiting for  *)
(* the replies, so that the handlers of several messages are suspended in  *)
(* get_response at once.                                                   *)
(***************************************************************************)
Welcome == <<"w", "e", "l", "c", "o", "m", "e">>

InitFresh == Constructed(Missing)

\* the users who may send another message, whether or not the last was answered
Hurried(active) == {u \in active : sent[u] < RaceMsgs}

NextRace ==
    \/ chat_ai_callback(TheUser)
    \/ ChatEvents(Hurried({TheUser}), ModeTexts,
                  {Completed(HiThere), Completed(Welcome), RateLimitError},
                  MaxClock, Deliveries, {"ok"})

SpecRace == InitFresh /\ [][NextRace]_vars

(***************************************************************************)
(* SpecPair: two users at once, each registering, entering chat mode,      *)
(* sending messages and resetting the conversation, their handlers         *)
(* interleaved at the awaits.                                              *)
(***************************************************************************)
\* the users who wait for each reply and have messages left to send
Patient(active) == {u \in Waited(active) : sent[u] < PairMsgs}

NextPair ==
    \/ StartEvents(Waited(Users), {StartCmd}, {"ann"}, clock, {TRUE}, {"ok"})
    \/ \E u \in Users : chat_ai_callback(u)
    \/ \E u \in Users : clear_history_callback(u)
    \/ ChatEvents(Patient(Users), {Hello}, {Completed(HiThere), RateLimitError},
                  clock, {TRUE}, {"ok"})

SpecPair == Init /\ [][NextPair]_vars

(***************************************************************************)
(* SpecCap: one user in chat mode who sends CapMsgs different messages one *)
(* after another, enough for the conversation to pass the cap, and resets  *)
(* the conversation at any time.                                           *)
(***************************************************************************)
\* the text of the k-th message: "m", then k in two digits
CapText(k) ==
    <<"m", DigitChars[((k \div 10) % 10) + 1], DigitChars[(k % 10) + 1]>>

\* the users who wait for each reply and have messages left to send
Steady(active) == {u \in Waited(active) : sent[u] < CapMsgs}

NextCap ==
    \/ chat_ai_callback(TheUser)
    \/ clear_history_callback(TheUser)
    \/ ChatEvents(Steady({TheUser}), {CapText(sent[TheUser] + 1)},
                  {Completed(HiThere), RateLimitError}, clock, {TRUE}, {"ok"})

SpecCap == InitFresh /\ [][NextCap]_vars

(***************************************************************************)
(* SpecLedger: one user and the ledger: registration, messages and prompts *)
(* that succeed or fail, the statistics, every way a write of users.json   *)
(* can end, and the process stopping and starting again on the file it     *)
(* left, from every kind of file it can find.                              *)
(***************************************************************************)
\* a users.json that is JSON but has a key int() rejects
Foreign ==
    JsonFile(Put(EmptyDict, <<"x">>,
                 [username |-> "ann", registration_date |-> 0, messages_sent |-> 1,
                  images_generated |-> 1, last_activity |-> 0]))

InitialFiles == {Missing, Corrupt, Foreign, EarlierRun}

InitLedger == \E initial_file \in InitialFiles : Constructed(initial_file)

\* the process ends and bot.py is run again: the stores are built anew, the
\* ledger from the users.json left behind; MemoryStorage and the suspended
\* handlers are gone
restart ==
    /\ user_histories' = EmptyDict
    /\ users' = load_users(file)
    /\ saves' = 0
    /\ fsm_state' = [u \in Users |-> Idle]
    /\ handlers' = {}
    /\ appended' = [u \in Users |-> <<>>]
    /\ solo' = [u \in Users |-> [user_histories |-> EmptyDict, users |-> load_users(file)]]
    /\ scenario' = [u \in Users |-> ScenarioOff]
    /\ last' = Step("load_users", 0, file.kind, FALSE, <<>>, 0)
    /\ UNCHANGED <<file, clock, sent>>

\* the users who wait for each reply and have messages left to send
Careful(active) == {u \in Waited(active) : sent[u] < LedgerMsgs}

NextLedger ==
    \/ StartEvents(Waited({TheUser}), {StartCmd}, {"ann"}, clock, {TRUE}, WriteOutcomes)
    \/ chat_ai_callback(TheUser)
    \/ generate_image_callback(TheUser)
    \/ ChatEvents(Careful({TheUser}), {Hello}, {Completed(HiThere), RateLimitError},
                  MaxClock, {TRUE}, WriteOutcomes)
    \/ ImageEvents(Careful({TheUser}), {Hello}, {Generated(ImageUrl), RateLimitError},
                   MaxClock, {TRUE}, WriteOutcomes)
    \/ StatsEvents({TheUser}, {StatsCmd})
    \/ restart

SpecLedger == InitLedger /\ [][NextLedger]_vars

(***************************************************************************)
(* SpecPrompt: one user in image mode who sends prompts one after another: *)
(* short ones, and ones whose length is around the slice bound of          *)
(* _enhance_prompt, with and without a quality word, in either case.       *)
(***************************************************************************)
ACat == <<"a", " ", "c", "a", "t">>

\* "a cat, stunning and detailed"
ACatStunning ==
    ACat \o <<",", " ", "s", "t", "u", "n", "n", "i", "n", "g", " ", "a", "n", "d", " ",
              "d", "e", "t", "a", "i", "l", "e", "d">>

\* the beginnings of the prompts: no quality word, two of them, one in
\* capitals, one in mixed case, a quality word cut short, and one split in two
PromptHeads ==
    {ACat,
     ACatStunning,
     <<"B", "E", "A", "U", "T", "I", "F", "U", "L">>,
     <<"H", "i", "g", "h", " ", "Q", "u", "a", "l", "i", "t", "y">>,
     <<"d", "e", "t", "a", "i", "l">>,
     <<"h", "i", "g", "h", " ", " ", "q", "u", "a", "l", "i", "t", "y">>}

\* n characters that belong to no quality word
Padding(n) == [i \in 1..n |-> "x"]

\* the lengths a prompt with a given beginning is sent in: alone, and padded
\* to every length at which the slice cuts the suffix, the prompt, or nothing
PromptLengths(head) ==
    {Len(head)} \cup ((PromptLimit - Len(QualitySuffix) - 1)..(PromptLimit + OverLimit))

Prompts ==
    {pair[1] \o Padding(pair[2] - Len(pair[1])) : pair \in
        {pair \in PromptHeads \X (1..(PromptLimit + OverLimit)) :
            pair[2] \in PromptLengths(pair[1])}}

\* the users who wait for each image and have prompts left to send
Prompting(active) == {u \in Waited(active) : sent[u] < PromptMsgs}

NextPrompt ==
    \/ generate_image_callback(TheUser)
    \/ ImageEvents(Prompting({TheUser}), Prompts, ImageOutcomes, clock, {TRUE}, {"ok"})

SpecPrompt == InitFresh /\ [][NextPrompt]_vars

(***************************************************************************)
(* SpecModes: one user who uses every command and every button in every    *)
(* mode, also while a message of theirs is being handled, within one       *)
(* minute.                                                                 *)
(***************************************************************************)
\* the users who wait for each answer and have free texts left to send
Browsing(active) == {u \in Waited(active) : sent[u] < ModeMsgs}

NextModes ==
    \/ StartEvents(Waited({TheUser}), Texts, {"ann"}, clock, Deliveries, {"ok"})
    \/ ModeEvents({TheUser})
    \/ MenuEvents({TheUser}, Texts)
    \/ StatsEvents({TheUser}, Texts)
    \/ \E text \in Texts : clear_command(TheUser, text)
    \/ clear_history_callback(TheUser)
    \/ ChatEvents(Browsing({TheUser}), ModeTexts, {Completed(HiThere), RateLimitError},
                  clock, Deliveries, {"ok"})
    \/ ImageEvents(Browsing({TheUser}), ModeTexts, {Generated(ImageUrl), RateLimitError},
                   clock, Deliveries, {"ok"})

SpecModes == InitFresh /\ [][NextModes]_vars

(***************************************************************************)
(* Claims checked under Spec                                               *)
(***************************************************************************)
\* the step just taken was the return of get_response to handle_chat_message
Responded == last.op = "get_response"

\* C2: messages_sent of a registered user grows only in a step in which the
\* completion succeeded: a failure of the backend (rate limit,
\* authentication, any other) is not counted.
C2_CountedOnlyOnSuccess ==
    [][\A u \in DOMAIN users :
           users'[u].messages_sent # users[u].messages_sent
               => last'.op = "get_response" /\ last'.user_id = u /\ last'.outcome = "ok"]_vars

\* the fixed message of each failure class
FailureMessage(kind) ==
    CASE kind = "RateLimitError" -> RateLimitMessage
      [] kind = "AuthenticationError" -> AuthMessage
      [] OTHER -> GenericMessage

FailureKinds == {failure.kind : failure \in BackendFailures}

\* C3: when the backend fails, in any of the three classes, get_response does
\* not raise, returns the fixed message of the class, and leaves every
\* conversation as it was: the user turn is not rolled back and no assistant
\* turn is appended.
C3_FailureReturnsMessage ==
    [][last'.op = "get_response" /\ last'.outcome \in FailureKinds
           => /\ ~last'.raised
              /\ last'.value = FailureMessage(last'.outcome)
              /\ user_histories' = user_histories]_vars

\* a rate limit was just reported to a user whose conversation is the system
\* turn and the turn of the message that failed
C3_Witness ==
    /\ Responded
    /\ last.outcome = "RateLimitError"
    /\ last.value = RateLimitMessage
    /\ last.user_id \in DOMAIN user_histories
    /\ user_histories[last.user_id] =
           <<_get_system_message, [role |-> "user", content |-> Hello]>>

\* the turns of n exchanges, in the order they were sent
ExchangeTurns(done) ==
    [i \in 1..(2 * Len(done)) |->
        IF i % 2 = 1
        THEN [role |-> "user", content |-> done[(i + 1) \div 2][1]]
        ELSE [role |-> "assistant", content |-> done[i \div 2][2]]]

\* C5: a user new to a fresh process who sent /start, chose chat mode and then
\* sent n >= 1 messages one after another, each answered by the backend, has
\* (for 2n < H) the conversation system, user, assistant, ..., of 1 + 2n turns
\* in the order sent, and messages_sent = n.
C5_ChatScenario ==
    \A u \in Users :
        (/\ scenario[u].stage = "ready"
         /\ Len(scenario[u].done) >= 1
         /\ 2 * Len(scenario[u].done) < max_history_length)
            => /\ u \in DOMAIN user_histories
               /\ user_histories[u] =
                      <<_get_system_message>> \o ExchangeTurns(scenario[u].done)
               /\ Len(user_histories[u]) = 1 + 2 * Len(scenario[u].done)
               /\ u \in DOMAIN users
               /\ users[u].messages_sent = Len(scenario[u].done)

\* the scenario has run with MaxMsgs messages
C5_Witness ==
    \E u \in Users :
        /\ scenario[u].stage = "ready"
        /\ Len(scenario[u].done) = MaxMsgs
        /\ users[u].images_generated = 0

\* C9: register_user for a user who has a record changes nothing: not the
\* record (registration_date, username, counters, last_activity), not another
\* record, not the file; for a user without one it adds a record with both
\* counters 0 and leaves the other records alone.
C9_RegisterIdempotent ==
    [][last'.op = "start_command"
           => LET u == last'.user_id
              IN  IF u \in DOMAIN users
                  THEN users' = users /\ file' = file /\ saves' = saves
                  ELSE /\ DOMAIN users' = DOMAIN users \cup {u}
                       /\ users'[u].messages_sent = 0
                       /\ users'[u].images_generated = 0
                       /\ users'[u].username = last'.outcome
                       /\ \A other \in DOMAIN users : users'[other] = users[other]]_vars

\* /start was just sent under another name, later, by a user who has sent a
\* message and made an image since registering
C9_Witness ==
    /\ last.op = "start_command"
    /\ last.prior = 1
    /\ last.user_id \in DOMAIN users
    /\ users[last.user_id].username # last.outcome
    /\ users[last.user_id].messages_sent >= 1
    /\ users[last.user_id].images_generated >= 1
    /\ users[last.user_id].registration_date < users[last.user_id].last_activity

\* increment_messages or increment_images was called in the step just taken
Recorded(step) ==
    \/ step.op = "get_response" /\ ~step.raised
    \/ step.op = "generate_image" /\ step.prior = 1

\* C10: increment_messages and increment_images for a user with no record
\* make no record, change no record of another user, and do not write the
\* file.
C10_UnregisteredNoEffect ==
    [][Recorded(last') /\ last'.user_id \notin DOMAIN users
           => users' = users /\ file' = file /\ saves' = saves]_vars

\* a reply was just given to a user with no record, while the ledger holds
\* the record of another user
C10_Witness ==
    /\ Responded
    /\ last.outcome = "ok"
    /\ last.user_id \notin DOMAIN users
    /\ DOMAIN users # {}

(***************************************************************************)
(* Claims checked under SpecCap                                            *)
(***************************************************************************)
\* C1: every conversation of the store has at most max_history_length turns
\* and starts with the system turn, and the turns after it are the
\* max_history_length - 1 most recent turns appended, in the order appended
\* (all of them while there are no more than that).
C1_ConversationCapped ==
    \A u \in DOMAIN user_histories :
        /\ Len(user_histories[u]) >= 1
        /\ Len(user_histories[u]) <= max_history_length
        /\ Head(user_histories[u]) = _get_system_message
        /\ Tail(user_histories[u]) = LastN(appended[u], max_history_length - 1)

\* more turns than the cap leaves room for were appended, so the oldest ones
\* were evicted
C1_Witness ==
    /\ TheUser \in DOMAIN user_histories
    /\ Len(appended[TheUser]) > max_history_length - 1
    /\ Len(user_histories[TheUser]) = max_history_length
    /\ user_histories[TheUser][2] # appended[TheUser][1]

\* C4: clear_history leaves the conversation of the user as the system turn
\* alone, whatever it was before: absent, at the cap, or ending in a user turn
\* that got no reply.
C4_ResetToSystemTurn ==
    [][last'.op = "clear_history"
           => /\ last'.user_id \in DOMAIN user_histories'
              /\ user_histories'[last'.user_id] = <<_get_system_message>>]_vars

\* the conversation was just reset when it was at the cap and ended in a user
\* turn with no reply
C4_Witness ==
    /\ last.op = "clear_history"
    /\ last.prior = max_history_length
    /\ last.outcome = "user"
    /\ user_histories[last.user_id] = <<_get_system_message>>

\* C6: get_response appends the user turn and then calls the backend with the
\* whole conversation as it is then: system turn first, at most
\* max_history_length turns, the user turn last; when the backend succeeds it
\* appends the assistant turn, and returns the content of that turn.
C6_RespondOrder ==
    [][/\ \A h \in handlers' \ handlers :
              h.pc = "await_completion"
                  => /\ h.user_id \in DOMAIN user_histories'
                     /\ h.messages = user_histories'[h.user_id]
                     /\ Head(h.messages) = _get_system_message
                     /\ Len(h.messages) <= max_history_length
                     /\ h.messages[Len(h.messages)] = [role |-> "user", content |-> h.text]
       /\ last'.op = "get_response" /\ last'.outcome = "ok"
              => LET before == user_histories[last'.user_id]
                     after == user_histories'[last'.user_id]
                 IN  /\ after[Len(after)] = [role |-> "assistant", content |-> last'.value]
                     /\ Tail(after) =
                            LastN(Tail(before) \o <<after[Len(after)]>>,
                                  max_history_length - 1)]_vars

\* a reply was just appended to a conversation that was at the cap
C6_Witness ==
    /\ Responded
    /\ last.outcome = "ok"
    /\ last.prior = max_history_length
    /\ last.value = HiThere
    /\ user_histories[last.user_id][max_history_length] =
           [role |-> "assistant", content |-> HiThere]
    /\ user_histories[last.user_id][max_history_length - 1].role = "user"

\* the handlers of the user that are inside get_response, at its await
Pending(user_id) ==
    {h \in handlers : h.user_id = user_id /\ h.pc = "await_completion"}

\* C19: a reset of the conversation of a user while a get_response call of
\* that user awaits the backend does not cancel the call: the call stays
\* pending, and when the backend then returns a reply, the reply is appended
\* to the fresh conversation, which becomes exactly the system turn and the
\* assistant turn, with no user turn, and get_response returns the reply.
C19_ResetDuringRespond ==
    [][\A u \in Users :
           /\ clear_history_callback(u) /\ Pending(u) # {}
                  => /\ Pending(u) \subseteq handlers'
                     /\ user_histories'[u] = <<_get_system_message>>
           /\ \A h \in Pending(u) : \A text \in Replies :
                  /\ HistoryLen(u) = 1
                  /\ \E now \in Minutes(MaxClock) : \E io \in WriteOutcomes :
                         completion_returned(h, Completed(text), now, io)
                  => /\ user_histories'[u] =
                            <<_get_system_message, [role |-> "assistant", content |-> text]>>
                     /\ \A i \in 1..Len(user_histories'[u]) :
                            user_histories'[u][i].role # "user"
                     /\ ~last'.raised
                     /\ last'.value = text
                     /\ h \notin handlers']_vars

\* after some exchanges, the conversation was reset while a call was
\* awaiting, and the reply of that call has just been appended
C19_Witness ==
    /\ Responded
    /\ last.outcome = "ok"
    /\ last.prior = 1
    /\ sent[last.user_id] >= 2
    /\ last.value = HiThere
    /\ user_histories[last.user_id] =
           <<_get_system_message, [role |-> "assistant", content |-> HiThere]>>

TurnsOf(user_id, role) ==
    IF user_id \in DOMAIN user_histories
    THEN {i \in 1..Len(user_histories[user_id]) : user_histories[user_id][i].role = role}
    ELSE {}

\* the handlers of a user suspended in the backend call of get_response
Awaiting(user_id) == {h \in InFlight(user_id) : h.pc = "await_completion"}

\* C8: calls of get_response for one user are not serialized: a handler about
\* to call it can always go on to append its user turn, also while other
\* calls for the same user are suspended in the backend, so the conversation
\* holds a user turn with no reply for every call that is suspended.
C8_NoPerUserSerialization ==
    /\ \A h \in handlers :
           h.handler = "handle_chat_message" /\ h.pc = "send_chat_action"
               => ENABLED chat_action_sent(h, TRUE)
    /\ \A u \in Users :
           Cardinality(TurnsOf(u, "user")) - Cardinality(TurnsOf(u, "assistant"))
               >= Cardinality(Awaiting(u))

\* two overlapping calls left the conversation as user turn A, user turn B,
\* then the two replies
C8_Witness ==
    /\ TheUser \in DOMAIN user_histories
    /\ user_histories[TheUser] =
           <<_get_system_message,
             [role |-> "user", content |-> Hello],
             [role |-> "user", content |-> ClearCmd],
             [role |-> "assistant", content |-> HiThere],
             [role |-> "assistant", content |-> Welcome]>>

(***************************************************************************)
(* Claims checked under SpecLedger                                         *)
(***************************************************************************)
\* C11: get_user_stats does not fail and changes nothing of the ledger (no
\* record, not the file, no write); for a registered user it returns a dict
\* of its own equal to the record, so that a write to the returned dict does
\* not reach the record; for an unknown user it returns the placeholder, with
\* both counters 0 and the sentinel texts, and makes no record.
C11_StatsReadOnly ==
    [][last'.op = "get_user_stats"
           => LET u == last'.user_id
                  returned == last'.value
              IN  /\ ~last'.raised
                  /\ users' = users /\ file' = file /\ saves' = saves
                  /\ SetItem(users', u, returned, "messages_sent", 99) = users'
                  /\ IF u \in DOMAIN users
                     THEN returned.value = users[u]
                     ELSE /\ returned.value = UnknownStats
                          /\ returned.value.messages_sent = 0
                          /\ returned.value.images_generated = 0
                          /\ u \notin DOMAIN users']_vars

\* the statistics were just shown to a registered user who has sent a message
C11_Witness ==
    /\ last.op = "get_user_stats"
    /\ last.prior = 1
    /\ last.user_id \in DOMAIN users
    /\ users[last.user_id].messages_sent >= 1
    /\ last.value.value = users[last.user_id]
    /\ ~last.value.shared

\* the steps that call register_user, increment_messages or increment_images
LedgerOps == {"start_command", "get_response", "generate_image"}

\* C12: every step that changes a record (registering a new user, counting a
\* message or an image of a registered user) writes users.json, once, and
\* when the write succeeds the file holds the whole map of all users, each key
\* the decimal text of the user identifier, so that load_users gives the same
\* map back, keyed by the integers.
C12_FullRewrite ==
    [][last'.op \in LedgerOps
           => /\ users' # users => last'.io # "none" /\ saves' = saves + 1
              /\ last'.io = "ok"
                     => /\ file' = json_dump(users')
                        /\ DOMAIN file'.data = {str(u) : u \in DOMAIN users'}
                        /\ \A u \in DOMAIN users' : file'.data[str(u)] = users'[u]
                        /\ load_users(file') = users']_vars

\* a message of one user was just counted and written, in a ledger that holds
\* the record of another user as well
C12_Witness ==
    /\ Responded
    /\ last.io = "ok"
    /\ DOMAIN users = {7, 42}
    /\ users[42].messages_sent >= 1
    /\ file = json_dump(users)
    /\ DOMAIN file.data = {<<"7">>, <<"4", "2">>}

\* the outcomes of a write of users.json that failed
FailedWrites == {"open_fails", "dump_fails"}

\* C18: a failure of the file never ends an operation. Started on a
\* users.json that is missing or cannot be read, the bot comes up with an
\* empty ledger; and when the write of a registration, of a counted message
\* or of a counted image fails, the step goes on without raising, self.users
\* has the change (the new record, or the counter one higher) although the
\* file has not, no other record is touched, and get_user_stats returns the
\* changed record.
C18_IOFailuresSwallowed ==
    [][/\ last'.op = "load_users" /\ (file.kind # "json" \/ file = Foreign)
           => /\ ~last'.raised
              /\ users' = EmptyDict
              /\ get_user_stats(users', TheUser).value = UnknownStats
       /\ last'.op \in LedgerOps /\ last'.io \in FailedWrites
           => LET u == last'.user_id
              IN  /\ ~last'.raised
                  /\ file' = IF last'.io = "open_fails" THEN file ELSE Corrupt
                  /\ u \in DOMAIN users'
                  /\ \A other \in DOMAIN users \ {u} :
                         other \in DOMAIN users' /\ users'[other] = users[other]
                  /\ get_user_stats(users', u).value = users'[u]
                  /\ last'.op = "start_command"
                         => /\ u \notin DOMAIN users
                            /\ users'[u].username = last'.outcome
                            /\ users'[u].messages_sent = 0
                            /\ users'[u].images_generated = 0
                            /\ \E h \in handlers' :
                                   h.user_id = u /\ h.handler = "start_command"
                  /\ last'.op = "get_response"
                         => /\ u \in DOMAIN users
                            /\ users'[u].messages_sent = users[u].messages_sent + 1
                            /\ users'[u].images_generated = users[u].images_generated
                  /\ last'.op = "generate_image"
                         => /\ u \in DOMAIN users
                            /\ users'[u].images_generated = users[u].images_generated + 1
                            /\ users'[u].messages_sent = users[u].messages_sent]_vars

\* no write has ever succeeded and there was no file to begin with; the user
\* is shown statistics that count a message and an image
C18_Witness ==
    /\ file = Missing
    /\ last.op = "get_user_stats"
    /\ last.user_id \in DOMAIN users
    /\ last.value.value.messages_sent >= 1
    /\ last.value.value.images_generated >= 1

\* C20: for a registered user, images_generated is one higher after an image
\* request whose generation returned an image reference, and the same after
\* one whose generation returned None; and in every step of the running bot
\* each record stays in the ledger and neither of its counters gets lower.
C20_CountersMonotone ==
    [][/\ last'.op = "generate_image" /\ last'.user_id \in DOMAIN users
           => users'[last'.user_id].images_generated =
                  users[last'.user_id].images_generated
                      + (IF last'.prior = 1 THEN 1 ELSE 0)
       /\ last'.op # "load_users"
           => \A u \in DOMAIN users :
                  /\ u \in DOMAIN users'
                  /\ users'[u].messages_sent >= users[u].messages_sent
                  /\ users'[u].images_generated >= users[u].images_generated]_vars

\* a registered user got an image and then a failure: the first was counted,
\* the second has just left the counter as it was
C20_Witness ==
    /\ last.op = "generate_image"
    /\ last.prior = 0
    /\ last.outcome = "RateLimitError"
    /\ last.user_id \in DOMAIN users
    /\ users[last.user_id].images_generated = 1
    /\ sent[last.user_id] = 2

(***************************************************************************)
(* Claims checked under SpecPrompt                                         *)
(***************************************************************************)
\* whether a quality word occurs in the prompt, letters compared without
\* regard to case
HasQualityWord(prompt) ==
    \E w \in 1..Len(quality_words) :
        \E at \in 0..(Len(prompt) - Len(quality_words[w])) :
            \A j \in 1..Len(quality_words[w]) :
                LowerChar(prompt[at + j]) = quality_words[w][j]

\* the handlers suspended in the call of the image backend
AwaitingImage == {h \in handlers : h.pc = "await_image"}

\* C13: the prompt submitted to the image backend is the first PromptLimit
\* characters of p', where p' is the prompt if it holds a quality word in any
\* case and the prompt followed by ", high quality, detailed" otherwise; so
\* "a cat" is submitted with the suffix, "a cat, stunning and detailed" as it
\* is, and no submitted prompt is longer than PromptLimit characters.
C13_PromptNormalized ==
    \A h \in AwaitingImage :
        /\ h.prompt = FirstN(IF HasQualityWord(h.text)
                             THEN h.text
                             ELSE h.text \o QualitySuffix, PromptLimit)
        /\ Len(h.prompt) <= PromptLimit
        /\ h.text = ACat => h.prompt = ACat \o QualitySuffix
        /\ h.text = ACatStunning => h.prompt = ACatStunning

\* a prompt with no quality word, shorter than the bound, was submitted with
\* the part of the suffix that fits
C13_Witness ==
    \E h \in AwaitingImage :
        /\ ~HasQualityWord(h.text)
        /\ Len(h.text) = PromptLimit - 3
        /\ Len(h.prompt) = PromptLimit
        /\ SubSeq(h.prompt, PromptLimit - 2, PromptLimit) = <<",", " ", "h">>

\* C14: generate_image does not raise: when the backend fails, by a rate
\* limit, an authentication error or any other exception, it returns None,
\* and when the backend succeeds it returns the url of the one image; in
\* either case the backend is called once, the handler ending with the step
\* in which the call returns.
C14_GenerateNeverRaises ==
    [][/\ last'.op = "generate_image"
              => /\ ~last'.raised
                 /\ last'.outcome \in FailureKinds
                        => last'.prior = 0 /\ last'.value = <<>>
                 /\ last'.outcome = "ok"
                        => last'.prior = 1 /\ last'.value = ImageUrl
       /\ \A h \in AwaitingImage :
              h \notin handlers'
                  => /\ last'.op = "generate_image"
                     /\ last'.user_id = h.user_id
                     /\ \A later \in handlers' : later.id # h.id]_vars

\* None was just returned for a failure that is neither a rate limit nor an
\* authentication error
C14_Witness ==
    /\ last.op = "generate_image"
    /\ last.outcome = "Exception"
    /\ ~last.raised
    /\ last.prior = 0
    /\ InFlight(last.user_id) = {}

(***************************************************************************)
(* Claims checked under SpecModes                                          *)
(***************************************************************************)
\* the handlers that started in the step: a free text was taken by the chat
\* handler or by the image handler
Taken == {h \in handlers' \ handlers : h.pc = "send_chat_action"}

\* the handlers of free texts that went on in the step: to the backend call,
\* or from it to the answer
Resumed == {h \in handlers \ handlers' : h.handler # "start_command"}

\* C15: the mode of a user changes only in these steps: the chat button sets
\* it to waiting_for_message, the image button to waiting_for_image_prompt,
\* "back to menu" and the end of /start to none; taking a free text and
\* handling it, whether the backend succeeds or fails, leaves every mode as it
\* is; and a free text goes to the chat handler only in waiting_for_message,
\* to the image handler only in waiting_for_image_prompt, and to neither when
\* no mode is set.
C15_ModeTransitions ==
    [][/\ \A u \in Users :
              fsm_state'[u] # fsm_state[u]
                  => \/ chat_ai_callback(u) /\ fsm_state'[u] = waiting_for_message
                     \/ generate_image_callback(u)
                            /\ fsm_state'[u] = waiting_for_image_prompt
                     \/ back_to_menu_callback(u) /\ fsm_state'[u] = Idle
                     \/ /\ \E h \in InFlight(u) : start_command_answered(h, TRUE)
                        /\ fsm_state'[u] = Idle
       /\ \A h \in Taken :
              /\ h.handler = "handle_chat_message"
                     <=> fsm_state[h.user_id] = waiting_for_message
              /\ h.handler = "handle_image_generation"
                     <=> fsm_state[h.user_id] = waiting_for_image_prompt
              /\ fsm_state[h.user_id] # Idle
       /\ Taken # {} \/ Resumed # {} => fsm_state' = fsm_state]_vars

\* the user went back to the menu while the chat handler that took their
\* message in chat mode is suspended in the backend call
C15_Witness ==
    /\ fsm_state[TheUser] = Idle
    /\ \E h \in InFlight(TheUser) :
           h.handler = "handle_chat_message" /\ h.pc = "await_completion"
    /\ sent[TheUser] = ModeMsgs

\* the image handlers that started, went on or ended in the step
ImageHandled ==
    {h \in (handlers' \ handlers) \cup (handlers \ handlers') :
        h.handler = "handle_image_generation"}

\* C16: a step in which the image handler takes a text, calls the backend or
\* gets its result (an image or a failure), and a step in which a text sent
\* with no mode set is answered, change no conversation and create none; and
\* the prompt a request submits is a function of the text of that request
\* alone.
C16_ImagesKeepNoHistory ==
    [][/\ (\/ ImageHandled # {}
           \/ \E u \in Users, text \in Texts : handle_unknown_message(u, text))
              => user_histories' = user_histories
       /\ \A h \in handlers' :
              h.pc = "await_image" => h.prompt = _enhance_prompt(h.text)]_vars

\* the second image of a user was just made, and the user has no conversation
C16_Witness ==
    /\ last.op = "generate_image"
    /\ last.outcome = "ok"
    /\ last.user_id \in DOMAIN users
    /\ users[last.user_id].images_generated = 2
    /\ last.user_id \notin DOMAIN user_histories

\* the step is the arrival of the message "/clear" from the user: the
\* dispatcher gave it to the one handler Route names
ClearSent(user_id) ==
    \/ clear_command(user_id, ClearCmd)
    \/ handle_chat_message(user_id, ClearCmd)
    \/ handle_image_generation(user_id, ClearCmd)

\* C17: whenever a user sends /clear, in any mode, the conversation of that
\* user is reset to the system turn alone and the text goes to no backend: no
\* chat handler and no image handler takes it.
C17_ClearInAnyMode ==
    [][\A u \in Users :
           ClearSent(u)
               => /\ u \in DOMAIN user_histories'
                  /\ user_histories'[u] = <<_get_system_message>>
                  /\ Taken = {}]_vars

====
